---- MODULE Spec2Model ----
(***************************************************************************)
(* A model of lib/ClangImporter/ClangImporter.cpp: the wrapper cache       *)
(* (ModuleWrappers), loadModule, getWrapperModule, getClangModuleForDecl,  *)
(* getReexportedModules, ClangModule::getAdapterModule, the identifier     *)
(* translation (importName) and lookupValue.                               *)
(*                                                                         *)
(* The bridge is single threaded but re-entrant: a call into the host      *)
(* module table (Ctx.getModule) can call back into loadModule.  The calls  *)
(* in flight are therefore kept on an explicit call stack; an operation of *)
(* the host compiler starts only when the stack is empty and every step    *)
(* executes the code of the topmost frame up to its next call or return.   *)
(***************************************************************************)
EXTENDS Integers, Sequences, FiniteSets, TLC

VARIABLES
    ModuleWrappers,    \* Impl.ModuleWrappers: clang::Module* -> (ClangModule*, bool)
    heap,              \* the ClangModule objects allocated so far; a pointer is an index
    firstClangModule,  \* Impl.firstClangModule (0 is nullptr)
    Generation,        \* Impl.Generation
    ctxGeneration,     \* the generation of Impl.SwiftContext (bumpGeneration)
    ImportCounter,     \* Impl.ImportCounter
    numComponents,     \* Component objects allocated so far
    LoadedModules,     \* Ctx.LoadedModules: name -> Module*
    hostTable,         \* the Swift module the host module table has for a name
    overlayLoaded,     \* names whose Swift overlay has had its imports resolved
    known,             \* clang::Module objects the foreign frontend has materialised
    stack,             \* the calls in flight, innermost last
    ret,               \* what the call that returned last returned
    fatal,             \* the process has stopped: a failed assertion, or a crash
    queries,           \* per wrapper: Ctx.getModule calls made by getAdapterModule
    bindWrites,        \* per wrapper: adapterModule.setPointerAndInt calls
    traversals,        \* per wrapper: forAllVisibleModules calls started on it
    lastAdapter,       \* per wrapper: what its last completed getAdapterModule returned
    lkEnv,             \* the foreign declarations and macros the frontend sees
    lkCall,            \* the arguments of the last lookupValue call
    lkResults,         \* the results vector after that call
    lkEvents,          \* what that call asked of the frontend and the translator
    lkVisible,         \* the last lookupVisibleDecls call: its filter and what it did
    nmIn,              \* the names handed to the identifier translation
    nmOut              \* what the importName calls made on them returned

modelVars == <<ModuleWrappers, heap, firstClangModule, Generation, ctxGeneration,
               ImportCounter, numComponents, LoadedModules, hostTable,
               overlayLoaded, known, stack, ret, fatal, queries,
               bindWrites, traversals, lastAdapter>>

lkVars == <<lkEnv, lkCall, lkResults, lkEvents, lkVisible>>

nmVars == <<nmIn, nmOut>>

vars == <<modelVars, lkVars, nmVars>>

(***************************************************************************)
(* Bounds.                                                                 *)
(***************************************************************************)
\* loadModule calls the host compiler makes itself (ImportCounter grows with each)
MaxImports == 4

(***************************************************************************)
(* The foreign frontend's module graph: Kit with the submodule Kit.Sub,    *)
(* and Base; Kit re-exports its submodule and Base, Base re-exports Kit    *)
(* (a re-export cycle).                                                    *)
(***************************************************************************)
NoModule == "none"
Mods == {"Kit", "Kit.Sub", "Base"}
TopMods == {"Kit", "Base"}

\* clang::Module::getTopLevelModule
TopLevelModule(m) == IF m = "Kit.Sub" THEN "Kit" ELSE m

\* clang::Module::isSubModule
IsSubModule(m) == TopLevelModule(m) # m

\* clang::Module::Name, the last component of the full module name
ModuleName(m) == IF m = "Kit.Sub" THEN "Sub" ELSE m

\* clang::Module::getExportedModules
ExportedModules(m) ==
    CASE m = "Kit" -> <<"Kit.Sub", "Base">>
      [] m = "Base" -> <<"Kit">>
      [] OTHER -> <<>>

\* the import paths the host compiler asks for
Paths == {<<"Kit">>, <<"Kit", "Sub">>, <<"Base">>, <<"Nope">>}

\* the module an import path names in the foreign module maps
ResolvePath(p) ==
    CASE p = <<"Kit">> -> "Kit"
      [] p = <<"Kit", "Sub">> -> "Kit.Sub"
      [] p = <<"Base">> -> "Base"
      [] OTHER -> NoModule

\* what loading m materialises in the frontend: m, its parent, and the
\* modules they export, transitively
RECURSIVE Closure(_)
Closure(S) ==
    LET more == S \cup {TopLevelModule(m) : m \in S}
                  \cup UNION {{ExportedModules(m)[i] : i \in 1..Len(ExportedModules(m))} : m \in S}
    IN  IF more = S THEN S ELSE Closure(more)

\* CompilerInstance::loadModule can fail on a path: one that names no module,
\* or a module the frontend has not materialised yet and does not find now
ForeignLoadMayFail(p) == ResolvePath(p) \notin known

(***************************************************************************)
(* Module references (Module* of the host compiler).                       *)
(***************************************************************************)
Null == [kind |-> "null", id |-> 0]
Unset == [kind |-> "unset", id |-> 0]
Clang(p) == [kind |-> "clang", id |-> p]
NameIndex(n) == IF n = "Kit" THEN 1 ELSE 2
\* the v-th Swift module object the host has under the name n
Swift(n, v) == [kind |-> "swift", id |-> 2 * NameIndex(n) + v]

\* isa<ClangModule>(r)
IsaClangModule(r) == r.kind = "clang"

\* the Swift overlays of the host side: Kit has two candidates, so that the
\* host module table can answer with different module objects over time
OverlayVersions == {0, 1, 2}

\* the import a Swift overlay makes when it is loaded
OverlayImport(n) == IF n = "Kit" THEN <<"Base">> ELSE <<"Kit">>

(***************************************************************************)
(* The wrapper cache, a DenseMap whose operator[] inserts a default entry. *)
(***************************************************************************)
DefaultEntry == [ptr |-> 0, int |-> FALSE]
Entry(mw, k) == IF k \in DOMAIN mw THEN mw[k] ELSE DefaultEntry
Put(mw, k, e) == [x \in (DOMAIN mw) \cup {k} |-> IF x = k THEN e ELSE mw[x]]

\* a constructor that back-references the top-level module
NewClangModuleOfTopLevel(m, comp) ==
    [clangModule |-> TopLevelModule(m), Name |-> ModuleName(m), comp |-> comp,
     adapter |-> Null, adapterInt |-> FALSE]

\* new (SwiftContext) ClangModule(ctx, name, importer, component, clangModule)
NewClangModule(m, comp) ==
    [clangModule |-> m, Name |-> ModuleName(m), comp |-> comp,
     adapter |-> Null, adapterInt |-> FALSE]

\* a getWrapperModule that builds a wrapper without looking at the cached pointer
getWrapperModuleUncached(mw, hp, nc, underlying, component) ==
    LET comp == IF component = 0 THEN nc + 1 ELSE component
        result == Len(hp) + 1
    IN  [mw |-> Put(mw, underlying, [Entry(mw, underlying) EXCEPT !.ptr = result]),
         heap |-> Append(hp, NewClangModule(underlying, comp)),
         nc |-> IF component = 0 THEN nc + 1 ELSE nc,
         ptr |-> result]

\* ClangImporter::Implementation::getWrapperModule(importer, underlying, component):
\* the state after the call and the pointer it returns; component 0 is nullptr
getWrapperModule(mw, hp, nc, underlying, component) ==
    LET cacheEntry == Entry(mw, underlying)
    IN  IF cacheEntry.ptr # 0
        THEN [mw |-> Put(mw, underlying, cacheEntry), heap |-> hp, nc |-> nc,
              ptr |-> cacheEntry.ptr]
        ELSE LET comp == IF component = 0 THEN nc + 1 ELSE component
                 result == Len(hp) + 1
             IN  [mw |-> Put(mw, underlying, [cacheEntry EXCEPT !.ptr = result]),
                  heap |-> Append(hp, NewClangModule(underlying, comp)),
                  nc |-> IF component = 0 THEN nc + 1 ELSE nc,
                  ptr |-> result]

\* a test that takes every wrapper for a top-level one
isTopLevelAlways(w) == TRUE

\* ClangModule::isTopLevel
isTopLevel(w) == ~IsSubModule(heap[w].clangModule)

(***************************************************************************)
(* Call frames.                                                            *)
(***************************************************************************)
Frame == [fn |-> "", pc |-> "", path |-> <<>>, w |-> 0, name |-> "", i |-> 0,
          top |-> Null, ew |-> 0, out |-> <<>>, queue |-> <<>>, visited |-> {},
          prev |-> Unset, queried |-> FALSE, wrote |-> FALSE, gen |-> 0,
          gen0 |-> 0, second |-> FALSE, retry |-> FALSE]

Top == stack[Len(stack)]
Rest == SubSeq(stack, 1, Len(stack) - 1)
Running(fn, pc) == ~fatal /\ stack # <<>> /\ Top.fn = fn /\ Top.pc = pc
Idle == ~fatal /\ stack = <<>>

\* the topmost frame moves on as f
Goto(f) == stack' = Append(Rest, f)
\* the topmost frame moves on as f and calls callee
Call(f, callee) == stack' = Append(Append(Rest, f), callee)

\* What a call returned.  byHost: the host compiler made the call itself.  For a
\* loadModule call of the host compiler: the Generation it started with (gen),
\* whether it repeats the successful call right before it (second, which
\* started with the Generation gen0) or retries the failed call right before it
\* (retry).  For a getAdapterModule call: what the last call completed before it
\* started had returned (prev), and whether it asked the host module table
\* (queried) or wrote the shared registry (wrote).
NoRet == [op |-> "", key |-> "", path |-> <<>>, w |-> 0, val |-> Null, out |-> <<>>,
          prev |-> Unset, queried |-> FALSE, wrote |-> FALSE, hit |-> FALSE,
          created |-> FALSE, byHost |-> FALSE, gen |-> 0, gen0 |-> 0,
          second |-> FALSE, retry |-> FALSE]

\* the topmost call returns r to its caller
Return(r) ==
    /\ stack' = Rest
    /\ ret' = [r EXCEPT !.byHost = (Len(stack) = 1)]

(***************************************************************************)
(* Names.  An identifier is the sequence of its characters.                *)
(***************************************************************************)
ProtoSuffix == <<"P", "r", "o", "t", "o">>
nTrue == <<"t", "r", "u", "e">>
nFalse == <<"f", "a", "l", "s", "e">>
nPoint == <<"P", "t">>
nW == <<"W">>
nInt == <<"i", "n", "t">>
nPlus == <<"+">>

\* the names the host compiler looks up
LookupNames ==
    {nTrue, nFalse, nPoint, nW, nInt, nPlus, ProtoSuffix, nW \o ProtoSuffix,
     nPoint \o ProtoSuffix, nTrue \o ProtoSuffix, <<"W", "P", "r", "o", "t">>}

\* StringRef::endswith
EndsWith(str, suffix) ==
    /\ Len(str) >= Len(suffix)
    /\ SubSeq(str, Len(str) - Len(suffix) + 1, Len(str)) = suffix

\* Identifier::isOperator: the name starts with an operator character
IsOperator(name) == name # <<>> /\ name[1] \in {"+", "-", "*", "/", "<", ">", "="}

\* a reserved list that holds "true" only
isSwiftReservedNameTrueOnly(name) == name \in {nTrue}

\* isSwiftReservedName
isSwiftReservedName(name) == name \in {nTrue, nFalse}

\* ident->getTokenID() != clang::tok::identifier: the spelling is a keyword
\* of the foreign language
IsClangKeyword(name) == name \in {nInt}

\* a clang::DeclarationName: ok is its conversion to bool (the empty one
\* converts to false), kind is getNameKind(), id the spelling of an identifier
NoName == [ok |-> FALSE, id |-> <<>>, kind |-> "Identifier"]

\* ClangImporter::Implementation::importName(Identifier name)
importName(name) ==
    IF IsOperator(name) THEN NoName
    ELSE IF isSwiftReservedName(name) THEN NoName
    ELSE IF IsClangKeyword(name) THEN NoName
    ELSE [ok |-> TRUE, id |-> name, kind |-> "Identifier"]

\* a host Identifier; Identifier() is the empty one
NoIdentifier == [ok |-> FALSE, id |-> <<>>]

\* SwiftContext.getIdentifier(str)
getIdentifier(str) == [ok |-> TRUE, id |-> str]

\* a translation that checks the bare spelling against the reserved names
importNameSuffixBareCheck(name, suffix) ==
    IF ~name.ok \/ name.kind # "Identifier" THEN NoIdentifier
    ELSE IF isSwiftReservedName(name.id) THEN NoIdentifier
    ELSE getIdentifier(name.id \o suffix)

\* ClangImporter::Implementation::importName(clang::DeclarationName name,
\* StringRef suffix), the overload that translates to the host
importNameSuffix(name, suffix) ==
    IF ~name.ok \/ name.kind # "Identifier" THEN NoIdentifier
    ELSE IF suffix = <<>>
    THEN IF isSwiftReservedName(name.id) THEN NoIdentifier
         ELSE getIdentifier(name.id)
    ELSE LET nameBuf == name.id \o suffix
         IN  IF isSwiftReservedName(nameBuf) THEN NoIdentifier
             ELSE getIdentifier(nameBuf)

(***************************************************************************)
(* The names the identifier translation is tried on: every spelling up to  *)
(* MaxNameLen over a small alphabet, and some longer spellings; a foreign  *)
(* name and a suffix are the two parts of a spelling cut in two.           *)
(***************************************************************************)
MaxNameLen == 4

NameAlphabet == {"t", "r", "u", "e", "+"}

RECURSIVE Spellings(_)
Spellings(n) ==
    IF n = 0 THEN {<<>>}
    ELSE LET shorter == Spellings(n - 1)
         IN  shorter \cup {Append(s, c) : s \in {x \in shorter : Len(x) = n - 1},
                                          c \in NameAlphabet}

Names == Spellings(MaxNameLen) \cup {nFalse, nInt, nPoint, nTrue \o <<"e">>,
                                     nW \o ProtoSuffix}

NameKinds == {"null", "Identifier", "ObjCZeroArgSelector"}

\* the clang::DeclarationName of that kind and spelling
ForeignName(kind, spelling) ==
    IF kind = "null" THEN NoName ELSE [ok |-> TRUE, id |-> spelling, kind |-> kind]

\* the spelling s as a host name, and cut after k characters into the
\* spelling of a foreign name of that kind and a suffix
NameInput(s, k, kind) ==
    [host |-> s, name |-> ForeignName(kind, SubSeq(s, 1, k)),
     suffix |-> SubSeq(s, k + 1, Len(s))]

NoNameIn == [host |-> <<>>, name |-> NoName, suffix |-> <<>>]
NoNameOut == [asked |-> {}, foreign |-> NoName, back |-> NoIdentifier,
              host |-> NoIdentifier]

\* the host compiler translates a name of its own to the foreign side
CallImportName ==
    /\ "importName" \notin nmOut.asked
    /\ nmOut' = [nmOut EXCEPT !.asked = @ \cup {"importName"},
                              !.foreign = importName(nmIn.host)]
    /\ UNCHANGED <<modelVars, lkVars, nmIn>>

\* and translates the foreign name it got back to the host side
CallImportNameBack ==
    /\ "importName" \in nmOut.asked
    /\ "back" \notin nmOut.asked
    /\ nmOut' = [nmOut EXCEPT !.asked = @ \cup {"back"},
                              !.back = importNameSuffix(nmOut.foreign, <<>>)]
    /\ UNCHANGED <<modelVars, lkVars, nmIn>>

\* the declaration translator translates a foreign name with a suffix
CallImportNameSuffix ==
    /\ "suffix" \notin nmOut.asked
    /\ nmOut' = [nmOut EXCEPT !.asked = @ \cup {"suffix"},
                              !.host = importNameSuffix(nmIn.name, nmIn.suffix)]
    /\ UNCHANGED <<modelVars, lkVars, nmIn>>

(***************************************************************************)
(* The foreign environment of a lookup: which declarations exist, and for  *)
(* each what the declaration translator (Impl.importDecl) makes of it.     *)
(***************************************************************************)
\* declarations an environment holds at most
MaxDecls == 2

\* ns: the namespace a foreign lookup finds the declaration in ("none" for a
\* declaration no lookup by name finds).
\* imp: "null" when importDecl fails, "other" for a declaration that is no
\* ValueDecl, "value" for a ValueDecl, "type" for a TypeDecl.
\* stdlib: the translated declaration's context is Impl.getSwiftModule().
\* mod: the module context of the translated declaration.
\* private: the foreign declaration is module-private.
DeclTable ==
    <<[name |-> nPoint, ns |-> "ordinary", imp |-> "value", stdlib |-> FALSE,
       mod |-> "Kit", private |-> FALSE],
      [name |-> nPoint, ns |-> "ordinary", imp |-> "type", stdlib |-> FALSE,
       mod |-> "Base", private |-> FALSE],
      [name |-> nPoint, ns |-> "tag", imp |-> "type", stdlib |-> FALSE,
       mod |-> "Kit", private |-> FALSE],
      [name |-> nPoint, ns |-> "tag", imp |-> "type", stdlib |-> TRUE,
       mod |-> "swift", private |-> FALSE],
      [name |-> nPoint, ns |-> "ordinary", imp |-> "type", stdlib |-> TRUE,
       mod |-> "swift", private |-> FALSE],
      [name |-> nPoint, ns |-> "ordinary", imp |-> "null", stdlib |-> FALSE,
       mod |-> "Kit", private |-> FALSE],
      [name |-> nPoint, ns |-> "tag", imp |-> "other", stdlib |-> FALSE,
       mod |-> "Kit", private |-> FALSE],
      [name |-> nW, ns |-> "protocol", imp |-> "type", stdlib |-> FALSE,
       mod |-> "Kit", private |-> FALSE],
      [name |-> nW, ns |-> "ordinary", imp |-> "type", stdlib |-> FALSE,
       mod |-> "Base", private |-> FALSE],
      [name |-> nW \o ProtoSuffix, ns |-> "ordinary", imp |-> "type", stdlib |-> FALSE,
       mod |-> "Kit", private |-> FALSE],
      [name |-> nTrue, ns |-> "ordinary", imp |-> "value", stdlib |-> FALSE,
       mod |-> "Kit", private |-> FALSE],
      [name |-> nW, ns |-> "protocol", imp |-> "type", stdlib |-> TRUE,
       mod |-> "swift", private |-> FALSE],
      [name |-> <<>>, ns |-> "none", imp |-> "type", stdlib |-> FALSE,
       mod |-> "Kit", private |-> FALSE],
      [name |-> nPoint, ns |-> "ordinary", imp |-> "value", stdlib |-> FALSE,
       mod |-> "Kit", private |-> TRUE]>>

DeclIds == 1..Len(DeclTable)

\* a macro definition: "none", "noinfo" (hasMacroDefinition, but getMacroInfo
\* gives nothing), "fail" (importMacro fails), "ok" (importMacro gives a declaration)
MacroStates == {"none", "noinfo", "fail", "ok"}
MacroNames == {nTrue, nPoint}

NoEnv == [decls |-> {}, macros |-> [n \in MacroNames |-> "none"]]
Envs == {[decls |-> D, macros |-> m] :
            D \in {X \in SUBSET DeclIds : Cardinality(X) <= MaxDecls},
            m \in [MacroNames -> MacroStates]}

MacroState(env, id) == IF id \in MacroNames THEN env.macros[id] ELSE "none"

\* the ids of a set, in ascending order
RECURSIVE Ascending(_)
Ascending(S) ==
    IF S = {} THEN <<>>
    ELSE LET least == CHOOSE x \in S : \A y \in S : x <= y
         IN  <<least>> \o Ascending(S \ {least})

\* sema.LookupName(lookupResult, Scope=0): the declarations of that name in
\* the namespace of the lookup kind
LookupName(env, id, kind) ==
    Ascending({d \in env.decls : DeclTable[d].name = id /\ DeclTable[d].ns = kind})

\* a translated declaration in the results; via tells where it came from
HostDecl(d, via) == [decl |-> d, via |-> via, imp |-> DeclTable[d].imp,
                     stdlib |-> DeclTable[d].stdlib, mod |-> DeclTable[d].mod]
MacroDecl(via) == [decl |-> 0, via |-> via, imp |-> "value", stdlib |-> FALSE,
                   mod |-> "Base"]

\* Impl.importDecl gave a declaration and dyn_cast<ValueDecl> accepts it
IsValueDecl(d) == DeclTable[d].imp \in {"value", "type"}

\* the first loop of lookupValue keeps a declaration
acceptedOrdinary(d) == IsValueDecl(d) /\ ~DeclTable[d].stdlib

\* the loop after the tag lookup keeps a declaration
acceptedTag(d) == IsValueDecl(d)

\* isa<TypeDecl>(valueDecl)
IsTypeDecl(d) == DeclTable[d].imp = "type"

\* the name and the lookup kind lookupValue goes on with
strippedName(name) ==
    IF EndsWith(name, ProtoSuffix)
    THEN SubSeq(name, 1, Len(name) - 5) ELSE name
\* a lookup kind that never switches to protocol names
lookupNameKindOrdinary(name) == "ordinary"
lookupNameKind(name) ==
    IF EndsWith(name, ProtoSuffix) THEN "protocol" ELSE "ordinary"

\* an access path check that lets every path through
accessPathMismatchNever(accessPath, name) == FALSE

\* if (accessPath.size() == 1 && accessPath.front().first != name) return
accessPathMismatch(accessPath, name) == Len(accessPath) = 1 /\ accessPath[1] # name

\* the macro probe: what it appends
macroResults(env, clangName) ==
    IF MacroState(env, clangName.id) = "ok" THEN <<MacroDecl("macro")>> ELSE <<>>

\* results that take the macro's declaration after the looked-up ones
pushedResultsMacroLast(macro, lookedUp, tagged) == lookedUp \o tagged \o macro

\* the order of the results.push_back calls of one lookupValue call: the macro
\* probe, then the loop over the lookup's result, then the loop over the tags
pushedResults(macro, lookedUp, tagged) == macro \o lookedUp \o tagged

\* a tag lookup made whatever the ordinary lookup found
tagLookupAlways(kind, FoundType) == kind = "ordinary"

\* if (lookupNameKind == LookupOrdinaryName && !FoundType)
tagLookupNeeded(kind, FoundType) == kind = "ordinary" /\ ~FoundType

\* ClangImporter::lookupValue(module, accessPath, name, lookupKind, results):
\* the declarations it appends, and what it asked of its collaborators
lookupValue(env, accessPath, name0) ==
    LET name == strippedName(name0)
        kind == lookupNameKind(name0)
        clangName == importName(name)
        found == LookupName(env, clangName.id, kind)
        kept == SelectSeq(found, acceptedOrdinary)
        FoundType == \E i \in 1..Len(kept) : IsTypeDecl(kept[i])
        tags == LookupName(env, clangName.id, "tag")
        keptTags == SelectSeq(tags, acceptedTag)
        probe == IF MacroState(env, clangName.id) = "none" THEN <<>>
                 ELSE <<[ev |-> "getMacroInfo", id |-> clangName.id, kind |-> ""]>>
                      \o (IF MacroState(env, clangName.id) \in {"fail", "ok"}
                          THEN <<[ev |-> "importMacro", id |-> name, kind |-> ""]>>
                          ELSE <<>>)
        ImportEv(d) == [ev |-> "importDecl", id |-> DeclTable[d].name, kind |-> ""]
        first == <<[ev |-> "importName", id |-> name, kind |-> ""]>>
        second == <<[ev |-> "hasMacroDefinition", id |-> clangName.id, kind |-> ""]>>
                  \o probe
                  \o <<[ev |-> "LookupName", id |-> clangName.id, kind |-> kind]>>
                  \o [i \in 1..Len(found) |-> ImportEv(found[i])]
        third == <<[ev |-> "LookupName", id |-> clangName.id, kind |-> "tag"]>>
                 \o [i \in 1..Len(tags) |-> ImportEv(tags[i])]
        Via(d) == HostDecl(d, kind)
        ViaTag(d) == HostDecl(d, "tag")
    IN  IF accessPathMismatch(accessPath, name0)
        THEN [appended |-> <<>>, events |-> <<>>]
        ELSE IF ~clangName.ok
        THEN [appended |-> <<>>, events |-> first]
        ELSE IF ~tagLookupNeeded(kind, FoundType)
        THEN [appended |-> pushedResults(macroResults(env, clangName),
                                         [i \in 1..Len(kept) |-> Via(kept[i])], <<>>),
              events |-> first \o second]
        ELSE [appended |-> pushedResults(macroResults(env, clangName),
                                         [i \in 1..Len(kept) |-> Via(kept[i])],
                                         [i \in 1..Len(keptTags) |-> ViaTag(keptTags[i])]),
              events |-> first \o second \o third]

NoCall == [name |-> <<>>, accessPath |-> <<>>, prior |-> <<>>, done |-> FALSE]

\* a declaration already in the results vector the caller passes
PriorDecl == [decl |-> 0, via |-> "caller", imp |-> "value", stdlib |-> FALSE,
              mod |-> "Kit"]

\* the host compiler calls lookupValue with a results vector it has begun
CallLookupValue(name, accessPath, prior) ==
    /\ ~lkCall.done
    /\ ~lkVisible.done
    /\ lkCall' = [name |-> name, accessPath |-> accessPath, prior |-> prior,
                  done |-> TRUE]
    /\ lkResults' = prior \o lookupValue(lkEnv, accessPath, name).appended
    /\ lkEvents' = lookupValue(lkEnv, accessPath, name).events
    /\ UNCHANGED <<modelVars, nmVars, lkEnv, lkVisible>>

(***************************************************************************)
(* lookupVisibleDecls: the frontend enumerates its visible declarations    *)
(* and the consumer looks each one up again by its spelling.               *)
(***************************************************************************)
\* const Module *ModuleFilter = nullptr
NoFilter == "none"
ModuleFilters == {NoFilter, "Kit", "Base"}

\* sema.LookupVisibleDecls(translation unit, LookupAnyName, consumer): the
\* declarations handed to FoundDecl, in order
VisibleDecls(env) == Ascending(env.decls)

\* a consumer that looks only at the spelling
foundDeclSkipsUnnamed(d) == DeclTable[d].name = <<>>

\* if (ND->getName().empty()) return; if (ND->isModulePrivate()) return
foundDeclSkips(d) == DeclTable[d].name = <<>> \/ DeclTable[d].private

\* if (!ModuleFilter || VD->getModuleContext() == ModuleFilter)
passesFilter(filter, vd) == filter = NoFilter \/ vd.mod = filter

\* ImportingVisibleDeclConsumer::FoundDecl(ND, ...): what it forwards to
\* NextConsumer
FoundDecl(env, filter, d) ==
    IF foundDeclSkips(d) THEN <<>>
    ELSE LET Passes(vd) == passesFilter(filter, vd)
         IN  SelectSeq(lookupValue(env, <<>>, DeclTable[d].name).appended, Passes)

\* the names FoundDecl calls lookupValue with
FoundDeclLookups(d) == IF foundDeclSkips(d) THEN <<>> ELSE <<DeclTable[d].name>>

\* ClangImporter::lookupVisibleDecls(M, AccessPath, Consumer, LookupKind) and,
\* with no filter, lookupVisibleDecls(Consumer): what the consumer receives
\* and the lookupValue calls made
lookupVisibleDecls(env, filter) ==
    LET raw == VisibleDecls(env)
        F[i \in 0..Len(raw)] ==
            IF i = 0 THEN [forwarded |-> <<>>, lookups |-> <<>>]
            ELSE [forwarded |-> F[i - 1].forwarded \o FoundDecl(env, filter, raw[i]),
                  lookups |-> F[i - 1].lookups \o FoundDeclLookups(raw[i])]
    IN  F[Len(raw)]

NoVisible == [done |-> FALSE, filter |-> NoFilter, forwarded |-> <<>>, lookups |-> <<>>]

\* the host compiler enumerates the visible declarations
CallLookupVisibleDecls(filter) ==
    /\ ~lkCall.done
    /\ ~lkVisible.done
    /\ lkVisible' = [done |-> TRUE, filter |-> filter,
                     forwarded |-> lookupVisibleDecls(lkEnv, filter).forwarded,
                     lookups |-> lookupVisibleDecls(lkEnv, filter).lookups]
    /\ UNCHANGED <<modelVars, nmVars, lkEnv, lkCall, lkResults, lkEvents>>

(***************************************************************************)
(* The host compiler's operations.                                         *)
(***************************************************************************)
\* per-wrapper bookkeeping follows the heap
Pad(s, n, x) == s \o [k \in 1..(n - Len(s)) |-> x]
Padded ==
    /\ queries' = Pad(queries, Len(heap'), 0)
    /\ bindWrites' = Pad(bindWrites, Len(heap'), 0)
    /\ lastAdapter' = Pad(lastAdapter, Len(heap'), Unset)

loadModuleFrame(p) == [Frame EXCEPT !.fn = "loadModule", !.pc = "start", !.path = p]
\* the last call the host compiler made was loadModule(p)
JustLoaded(p) == ret.byHost /\ ret.op = "loadModule" /\ ret.path = p
hostLoadModuleFrame(p) ==
    [loadModuleFrame(p) EXCEPT !.gen = Generation, !.gen0 = ret.gen,
                               !.second = JustLoaded(p) /\ ret.val # Null,
                               !.retry = JustLoaded(p) /\ ret.val = Null]
\* what a loadModule call returns
loadModuleRet ==
    [NoRet EXCEPT !.op = "loadModule", !.path = Top.path, !.gen = Top.gen,
                  !.gen0 = Top.gen0, !.second = Top.second, !.retry = Top.retry]
adapterFrame(w, la) ==
    [Frame EXCEPT !.fn = "getAdapterModule", !.pc = "start", !.w = w,
                  !.prev = IF w <= Len(la) THEN la[w] ELSE Unset]
reexportFrame(w) == [Frame EXCEPT !.fn = "getReexportedModules", !.pc = "start", !.w = w]
ctxFrame(n) == [Frame EXCEPT !.fn = "CtxGetModule", !.pc = "start", !.name = n]
forAllFrame(w) ==
    [Frame EXCEPT !.fn = "forAllVisibleModules", !.pc = "loop", !.w = w,
                  !.queue = <<Clang(w)>>]

\* ClangImporter::loadModule(importLoc, path), called by the host compiler
CallLoadModule(p) ==
    /\ Idle
    /\ ImportCounter < MaxImports
    /\ stack' = <<hostLoadModuleFrame(p)>>
    /\ UNCHANGED <<lkVars, nmVars, ModuleWrappers, heap, firstClangModule, Generation, ctxGeneration,
                   ImportCounter, numComponents, LoadedModules, hostTable,
                   overlayLoaded, known, ret, fatal, queries, bindWrites,
                   traversals, lastAdapter>>

\* clang::Module *M = D->getOwningModule(); M = M->getTopLevelModule()
owningTopLevelModule(owner) == TopLevelModule(owner)

\* A foreign declaration D handed to getClangModuleForDecl: whether it is an
\* ObjCInterfaceDecl; the owning module of OID->getDefinition(), NoDecl when
\* the class is only forward-declared and getDefinition() is nullptr; the
\* owning module of D->getCanonicalDecl().  Of the two only the one the code
\* goes on with is kept.
NoDecl == "nullptr"
Decls ==
    {[interface |-> TRUE, definition |-> o, canonical |-> NoModule] :
        o \in Mods \cup {NoModule, NoDecl}}
    \cup {[interface |-> FALSE, definition |-> NoDecl, canonical |-> o] :
        o \in Mods \cup {NoModule}}

\* if (auto OID = dyn_cast<clang::ObjCInterfaceDecl>(D)) D = OID->getDefinition();
\* else D = D->getCanonicalDecl(): the declaration whose owner is asked for,
\* named by that owner
definitionOrCanonicalDecl(D) == IF D.interface THEN D.definition ELSE D.canonical

\* clang::Module *M = D->getOwningModule(): what the read can give.  On
\* nullptr the read is undefined; where the process does not stop, it gives
\* null or some module the frontend holds.
getOwningModule(D) == IF D = NoDecl THEN known \cup {NoModule} ELSE {D}

\* the rest of getClangModuleForDecl, from the owning module it has read
GetClangModuleForDeclOwned(owner) ==
    /\ IF owner = NoModule
       THEN /\ ret' = [NoRet EXCEPT !.op = "getClangModuleForDecl", !.key = NoModule,
                                        !.byHost = TRUE]
            /\ UNCHANGED <<lkVars, nmVars, ModuleWrappers, heap, numComponents>>
       ELSE LET M == owningTopLevelModule(owner)
                g == getWrapperModule(ModuleWrappers, heap, numComponents, M, 0)
            IN  /\ ModuleWrappers' = g.mw
                /\ heap' = g.heap
                /\ numComponents' = g.nc
                /\ ret' = [NoRet EXCEPT !.op = "getClangModuleForDecl", !.key = M,
                                        !.w = g.ptr, !.val = Clang(g.ptr),
                                        !.created = Len(g.heap) > Len(heap),
                                        !.byHost = TRUE]
    /\ Padded
    /\ traversals' = Pad(traversals, Len(heap'), 0)
    /\ UNCHANGED <<lkVars, nmVars, firstClangModule, Generation, ctxGeneration, ImportCounter,
                   LoadedModules, hostTable, overlayLoaded, known, stack,
                   fatal>>

\* ClangImporter::Implementation::getClangModuleForDecl(D).  For a class that
\* is only forward-declared line 346 reads through nullptr: the process
\* stops there, or the read gives something and the call goes on.
CallGetClangModuleForDecl(D) ==
    /\ Idle
    /\ definitionOrCanonicalDecl(D) \in known \cup {NoModule, NoDecl}
    /\ \/ /\ definitionOrCanonicalDecl(D) = NoDecl
          /\ fatal' = TRUE
          /\ UNCHANGED <<lkVars, nmVars, ModuleWrappers, heap, firstClangModule,
                         Generation, ctxGeneration, ImportCounter, numComponents,
                         LoadedModules, hostTable, overlayLoaded, known, stack,
                         ret, queries, bindWrites, traversals, lastAdapter>>
       \/ \E owner \in getOwningModule(definitionOrCanonicalDecl(D)) :
             GetClangModuleForDeclOwned(owner)

\* ClangImporter::getReexportedModules(module, exports), called by the host compiler
CallGetReexportedModules(w) ==
    /\ Idle
    /\ w \in 1..Len(heap)
    /\ stack' = <<reexportFrame(w)>>
    /\ UNCHANGED <<lkVars, nmVars, ModuleWrappers, heap, firstClangModule, Generation, ctxGeneration,
                   ImportCounter, numComponents, LoadedModules, hostTable,
                   overlayLoaded, known, ret, fatal, queries, bindWrites,
                   traversals, lastAdapter>>

\* ClangModule::getAdapterModule(), called by the host compiler
CallGetAdapterModule(w) ==
    /\ Idle
    /\ w \in 1..Len(heap)
    /\ stack' = <<adapterFrame(w, lastAdapter)>>
    /\ UNCHANGED <<lkVars, nmVars, ModuleWrappers, heap, firstClangModule, Generation, ctxGeneration,
                   ImportCounter, numComponents, LoadedModules, hostTable,
                   overlayLoaded, known, ret, fatal, queries, bindWrites,
                   traversals, lastAdapter>>

(***************************************************************************)
(* The environment: the host module table changes between the host         *)
(* compiler's operations.                                                  *)
(***************************************************************************)
OverlayChoices(n) == IF n = "Kit" THEN OverlayVersions ELSE {0, 1}

HostTableChange(n, v) ==
    /\ Idle
    /\ v \in OverlayChoices(n)
    /\ hostTable[n] # v
    /\ hostTable' = [hostTable EXCEPT ![n] = v]
    /\ overlayLoaded' = overlayLoaded \ {n}
    /\ UNCHANGED <<lkVars, nmVars, ModuleWrappers, heap, firstClangModule, Generation, ctxGeneration,
                   ImportCounter, numComponents, LoadedModules, known,
                   stack, ret, fatal, queries, bindWrites, traversals, lastAdapter>>

\* the host compiler records a module it imported under a name that has no
\* entry yet: the wrapper loadModule gave it, or the Swift module its module
\* table has
HostRegisterCandidates(n) ==
    (IF Entry(ModuleWrappers, n).ptr # 0
     THEN {Clang(Entry(ModuleWrappers, n).ptr)} ELSE {})
    \cup (IF hostTable[n] # 0 THEN {Swift(n, hostTable[n])} ELSE {})

HostRegister(n) ==
    /\ Idle
    /\ \E r \in HostRegisterCandidates(n) :
          /\ LoadedModules[n] = Null
          /\ LoadedModules' = [LoadedModules EXCEPT ![n] = r]
    /\ UNCHANGED <<lkVars, nmVars, ModuleWrappers, heap, firstClangModule, Generation, ctxGeneration,
                   ImportCounter, numComponents, hostTable, overlayLoaded,
                   known, stack, ret, fatal, queries, bindWrites, traversals,
                   lastAdapter>>

(***************************************************************************)
(* ClangImporter::loadModule                                               *)
(***************************************************************************)
\* a hit that returns the wrapper without marking the entry
loadModuleHitEntryUnmarked(cachedResult) == cachedResult

\* the cache entry a loadModule call leaves when it finds the wrapper cached
loadModuleHitEntry(cachedResult) == [cachedResult EXCEPT !.int = TRUE]

\* a miss that marks the entry but does not store the wrapper in it
loadModuleMissEntryUnstored(cachedResult, result) == [cachedResult EXCEPT !.int = TRUE]

\* the cache entry a loadModule call leaves when it builds the wrapper
loadModuleMissEntry(cachedResult, result) ==
    [cachedResult EXCEPT !.ptr = result, !.int = TRUE]

\* if (!Impl.firstClangModule) Impl.firstClangModule = result
loadModuleFirst(first, result) == IF first = 0 THEN result ELSE first

\* ++Impl.Generation
bumpGeneration(g) == g + 1

\* a failed load that has already evaluated Impl.ModuleWrappers[clangModule]
loadModuleFailCacheTouched(mw) == Put(mw, NoModule, DefaultEntry)

\* the cache when loadModule returns on a failed load: it returns before
\* Impl.ModuleWrappers[clangModule] is evaluated
loadModuleFailCache(mw) == mw

\* what a failed load of a submodule path leaves in the frontend when the
\* submodule is rejected (unavailable, or missing from the module file) only
\* after the file of the top-level module was loaded: the top-level module
\* and what it exports
FailedLoadMaterialises(p) ==
    IF Len(p) > 1 /\ ResolvePath(<<p[1]>>) # NoModule
    THEN Closure({ResolvePath(<<p[1]>>)}) \ {ResolvePath(p)}
    ELSE {}

\* if (!clangModule) return nullptr
LoadModuleFail ==
    /\ Running("loadModule", "start")
    /\ ForeignLoadMayFail(Top.path)
    /\ ImportCounter' = ImportCounter + 1
    /\ ModuleWrappers' = loadModuleFailCache(ModuleWrappers)
    /\ UNCHANGED <<lkVars, nmVars, heap, firstClangModule, Generation, ctxGeneration,
                   numComponents, LoadedModules, hostTable, overlayLoaded,
                   known, fatal, queries, bindWrites, traversals, lastAdapter>>
    /\ Return([loadModuleRet EXCEPT !.key = NoModule])

\* if (!clangModule) return nullptr, after the frontend loaded the top-level
\* module of the path
LoadModuleFailLoaded ==
    /\ Running("loadModule", "start")
    /\ ForeignLoadMayFail(Top.path)
    /\ FailedLoadMaterialises(Top.path) # {}
    /\ ImportCounter' = ImportCounter + 1
    /\ ModuleWrappers' = loadModuleFailCache(ModuleWrappers)
    /\ known' = known \cup FailedLoadMaterialises(Top.path)
    /\ UNCHANGED <<lkVars, nmVars, heap, firstClangModule, Generation, ctxGeneration,
                   numComponents, LoadedModules, hostTable, overlayLoaded,
                   fatal, queries, bindWrites, traversals, lastAdapter>>
    /\ Return([loadModuleRet EXCEPT !.key = NoModule])

\* if (Module *result = cachedResult.getPointer()) { ... return result; }
LoadModuleHit ==
    /\ Running("loadModule", "start")
    /\ LET clangModule == ResolvePath(Top.path)
           cachedResult == Entry(ModuleWrappers, clangModule)
       IN  /\ clangModule # NoModule
           /\ cachedResult.ptr # 0
           /\ ImportCounter' = ImportCounter + 1
           /\ known' = Closure(known \cup {clangModule})
           /\ ModuleWrappers' =
                  Put(ModuleWrappers, clangModule, loadModuleHitEntry(cachedResult))
           /\ UNCHANGED <<lkVars, nmVars, heap, firstClangModule, Generation, ctxGeneration,
                          numComponents, LoadedModules, hostTable, overlayLoaded, fatal, queries, bindWrites, traversals,
                          lastAdapter>>
           /\ Return([loadModuleRet EXCEPT !.key = clangModule,
                                   !.w = cachedResult.ptr,
                                   !.val = Clang(cachedResult.ptr), !.hit = TRUE])

\* the wrapper is built, stored and marked, then its visible modules are walked
LoadModuleMiss ==
    /\ Running("loadModule", "start")
    /\ LET clangModule == ResolvePath(Top.path)
           cachedResult == Entry(ModuleWrappers, clangModule)
           component == numComponents + 1
           result == Len(heap) + 1
       IN  /\ clangModule # NoModule
           /\ cachedResult.ptr = 0
           /\ ImportCounter' = ImportCounter + 1
           /\ known' = Closure(known \cup {clangModule})
           /\ numComponents' = component
           /\ heap' = Append(heap, NewClangModule(clangModule, component))
           /\ ModuleWrappers' =
                  Put(ModuleWrappers, clangModule, loadModuleMissEntry(cachedResult, result))
           /\ firstClangModule' = loadModuleFirst(firstClangModule, result)
           /\ Padded
           /\ traversals' = Append(Pad(traversals, Len(heap), 0), 1)
           /\ Call([Top EXCEPT !.pc = "bump", !.w = result, !.name = clangModule],
                   forAllFrame(result))
           /\ UNCHANGED <<lkVars, nmVars, Generation, ctxGeneration, LoadedModules, hostTable,
                          overlayLoaded, ret, fatal>>

\* ++Impl.Generation; Impl.SwiftContext.bumpGeneration(); return result
LoadModuleBump ==
    /\ Running("loadModule", "bump")
    /\ Generation' = bumpGeneration(Generation)
    /\ ctxGeneration' = ctxGeneration + 1
    /\ UNCHANGED <<lkVars, nmVars, ModuleWrappers, heap, firstClangModule, ImportCounter,
                   numComponents, LoadedModules, hostTable, overlayLoaded,
                   known, fatal, queries, bindWrites, traversals, lastAdapter>>
    /\ Return([loadModuleRet EXCEPT !.key = Top.name, !.w = Top.w,
                            !.val = Clang(Top.w), !.created = TRUE])

(***************************************************************************)
(* Module::forAllVisibleModules: the walk over a module's re-exports       *)
(***************************************************************************)
ForAllDone ==
    /\ Running("forAllVisibleModules", "loop")
    /\ Top.queue = <<>>
    /\ UNCHANGED <<lkVars, nmVars, ModuleWrappers, heap, firstClangModule, Generation, ctxGeneration,
                   ImportCounter, numComponents, LoadedModules, hostTable,
                   overlayLoaded, known, fatal, queries, bindWrites,
                   traversals, lastAdapter>>
    /\ Return([NoRet EXCEPT !.op = "forAllVisibleModules", !.w = Top.w])

ForAllNext ==
    /\ Running("forAllVisibleModules", "loop")
    /\ Top.queue # <<>>
    /\ LET next == Top.queue[Len(Top.queue)]
           popped == [Top EXCEPT !.queue = SubSeq(@, 1, Len(@) - 1)]
           seen == [popped EXCEPT !.visited = @ \cup {next}]
       IN  IF next \in Top.visited \/ ~IsaClangModule(next)
           THEN Goto(seen)
           ELSE Call([seen EXCEPT !.pc = "gotReexports"], reexportFrame(next.id))
    /\ UNCHANGED <<lkVars, nmVars, ModuleWrappers, heap, firstClangModule, Generation, ctxGeneration,
                   ImportCounter, numComponents, LoadedModules, hostTable,
                   overlayLoaded, known, ret, fatal, queries, bindWrites,
                   traversals, lastAdapter>>

ForAllGotReexports ==
    /\ Running("forAllVisibleModules", "gotReexports")
    /\ Goto([Top EXCEPT !.pc = "loop", !.queue = @ \o ret.out])
    /\ UNCHANGED <<lkVars, nmVars, ModuleWrappers, heap, firstClangModule, Generation, ctxGeneration,
                   ImportCounter, numComponents, LoadedModules, hostTable,
                   overlayLoaded, known, ret, fatal, queries, bindWrites,
                   traversals, lastAdapter>>

(***************************************************************************)
(* ClangImporter::getReexportedModules                                     *)
(***************************************************************************)
\* a choice that leaves out the comparison with the importing module's adapter
actualExportUnguarded(adapter, topLevelAdapter, exportWrapper) ==
    IF adapter = Null THEN Clang(exportWrapper) ELSE adapter

\* if (!actualExport || actualExport == topLevelAdapter) actualExport = exportWrapper
actualExport(adapter, topLevelAdapter, exportWrapper) ==
    IF adapter = Null \/ adapter = topLevelAdapter THEN Clang(exportWrapper) ELSE adapter

\* auto topLevelAdapter = cast<ClangModule>(module)->getAdapterModule()
GetReexportedStart ==
    /\ Running("getReexportedModules", "start")
    /\ Call([Top EXCEPT !.pc = "gotTop"], adapterFrame(Top.w, lastAdapter))
    /\ UNCHANGED <<lkVars, nmVars, ModuleWrappers, heap, firstClangModule, Generation, ctxGeneration,
                   ImportCounter, numComponents, LoadedModules, hostTable,
                   overlayLoaded, known, ret, fatal, queries, bindWrites,
                   traversals, lastAdapter>>

\* underlying->getExportedModules(exported)
GetReexportedGotTop ==
    /\ Running("getReexportedModules", "gotTop")
    /\ Goto([Top EXCEPT !.pc = "loop", !.top = ret.val, !.i = 1])
    /\ UNCHANGED <<lkVars, nmVars, ModuleWrappers, heap, firstClangModule, Generation, ctxGeneration,
                   ImportCounter, numComponents, LoadedModules, hostTable,
                   overlayLoaded, known, ret, fatal, queries, bindWrites,
                   traversals, lastAdapter>>

\* exportWrapper = Impl.getWrapperModule(*this, exportMod, module->getComponent());
\* actualExport = exportWrapper->getAdapterModule()
GetReexportedLoop ==
    /\ Running("getReexportedModules", "loop")
    /\ LET exported == ExportedModules(heap[Top.w].clangModule)
       IN  /\ Top.i <= Len(exported)
           /\ LET g == getWrapperModule(ModuleWrappers, heap, numComponents,
                                        exported[Top.i], heap[Top.w].comp)
              IN  /\ ModuleWrappers' = g.mw
                  /\ heap' = g.heap
                  /\ numComponents' = g.nc
                  /\ Padded
                  /\ traversals' = Pad(traversals, Len(heap'), 0)
                  /\ Call([Top EXCEPT !.pc = "gotExport", !.ew = g.ptr],
                          adapterFrame(g.ptr, lastAdapter))
    /\ UNCHANGED <<lkVars, nmVars, firstClangModule, Generation, ctxGeneration, ImportCounter,
                   LoadedModules, hostTable, overlayLoaded, known, ret,
                   fatal>>

\* exports.push_back({Module::AccessPathTy(), actualExport})
GetReexportedGotExport ==
    /\ Running("getReexportedModules", "gotExport")
    /\ Goto([Top EXCEPT !.pc = "loop", !.i = @ + 1,
                        !.out = Append(@, actualExport(ret.val, Top.top, Top.ew))])
    /\ UNCHANGED <<lkVars, nmVars, ModuleWrappers, heap, firstClangModule, Generation, ctxGeneration,
                   ImportCounter, numComponents, LoadedModules, hostTable,
                   overlayLoaded, known, ret, fatal, queries, bindWrites,
                   traversals, lastAdapter>>

GetReexportedDone ==
    /\ Running("getReexportedModules", "loop")
    /\ Top.i > Len(ExportedModules(heap[Top.w].clangModule))
    /\ UNCHANGED <<lkVars, nmVars, ModuleWrappers, heap, firstClangModule, Generation, ctxGeneration,
                   ImportCounter, numComponents, LoadedModules, hostTable,
                   overlayLoaded, known, fatal, queries, bindWrites,
                   traversals, lastAdapter>>
    /\ Return([NoRet EXCEPT !.op = "getReexportedModules", !.w = Top.w,
                            !.key = heap[Top.w].clangModule, !.val = Top.top,
                            !.out = Top.out])

(***************************************************************************)
(* ClangModule::getAdapterModule                                           *)
(***************************************************************************)
\* what a getAdapterModule call returns
AdapterReturn(r, queried, wrote) ==
    /\ lastAdapter' = [lastAdapter EXCEPT ![Top.w] = r]
    /\ Return([NoRet EXCEPT !.op = "getAdapterModule", !.w = Top.w,
                            !.key = heap[Top.w].clangModule, !.val = r,
                            !.prev = Top.prev, !.queried = queried,
                            !.wrote = wrote])

\* if (!isTopLevel()) { ... return wrapper->getAdapterModule(); }
GetAdapterDelegate ==
    /\ Running("getAdapterModule", "start")
    /\ ~isTopLevel(Top.w)
    /\ LET topLevel == TopLevelModule(heap[Top.w].clangModule)
           g == getWrapperModule(ModuleWrappers, heap, numComponents, topLevel,
                                 heap[Top.w].comp)
       IN  /\ ModuleWrappers' = g.mw
           /\ heap' = g.heap
           /\ numComponents' = g.nc
           /\ Padded
           /\ traversals' = Pad(traversals, Len(heap'), 0)
           /\ Call([Top EXCEPT !.pc = "delegated"], adapterFrame(g.ptr, lastAdapter))
    /\ UNCHANGED <<lkVars, nmVars, firstClangModule, Generation, ctxGeneration, ImportCounter,
                   LoadedModules, hostTable, overlayLoaded, known, ret,
                   fatal>>

GetAdapterDelegated ==
    /\ Running("getAdapterModule", "delegated")
    /\ UNCHANGED <<lkVars, nmVars, ModuleWrappers, heap, firstClangModule, Generation, ctxGeneration,
                   ImportCounter, numComponents, LoadedModules, hostTable,
                   overlayLoaded, known, fatal, queries, bindWrites,
                   traversals>>
    /\ AdapterReturn(ret.val, ret.queried, ret.wrote)

\* the binding is resolved: return adapterModule.getPointer()
GetAdapterCached ==
    /\ Running("getAdapterModule", "start")
    /\ isTopLevel(Top.w)
    /\ heap[Top.w].adapterInt
    /\ UNCHANGED <<lkVars, nmVars, ModuleWrappers, heap, firstClangModule, Generation, ctxGeneration,
                   ImportCounter, numComponents, LoadedModules, hostTable,
                   overlayLoaded, known, fatal, queries, bindWrites,
                   traversals>>
    /\ AdapterReturn(heap[Top.w].adapter, Top.queried, Top.wrote)

\* auto adapter = Ctx.getModule(Module::AccessPathTy({Name, SourceLoc()}))
GetAdapterQuery ==
    /\ Running("getAdapterModule", "start")
    /\ isTopLevel(Top.w)
    /\ ~heap[Top.w].adapterInt
    /\ queries' = [queries EXCEPT ![Top.w] = @ + 1]
    /\ Call([Top EXCEPT !.pc = "gotAdapter", !.queried = TRUE],
            ctxFrame(heap[Top.w].Name))
    /\ UNCHANGED <<lkVars, nmVars, ModuleWrappers, heap, firstClangModule, Generation, ctxGeneration,
                   ImportCounter, numComponents, LoadedModules, hostTable,
                   overlayLoaded, known, ret, fatal, bindWrites,
                   traversals, lastAdapter>>

\* a resolution that keeps whatever the host module table answered
resolvedAdapterKept(adapter) == adapter

\* if (isa<ClangModule>(adapter)) adapter = nullptr
resolvedAdapter(adapter) == IF IsaClangModule(adapter) THEN Null ELSE adapter

\* assert(!sharedModuleRef || sharedModuleRef == adapter || sharedModuleRef == this)
sharedModuleRefOk(sharedModuleRef, adapter, this) ==
    sharedModuleRef = Null \/ sharedModuleRef = adapter \/ sharedModuleRef = Clang(this)

\* a binding that stores the adapter but not the resolved flag
setPointerOnly(wrapper, adapter) == [wrapper EXCEPT !.adapter = adapter]

\* adapterModule.setPointerAndInt(adapter, true)
setPointerAndInt(wrapper, adapter) ==
    [wrapper EXCEPT !.adapter = adapter, !.adapterInt = TRUE]

\* mutableThis->adapterModule.setPointerAndInt(adapter, true)
BindAdapter(adapter) ==
    /\ heap' = [heap EXCEPT ![Top.w] = setPointerAndInt(@, adapter)]
    /\ bindWrites' = [bindWrites EXCEPT ![Top.w] = @ + 1]

\* the host module table answered with a foreign wrapper: no adapter
GetAdapterResolveNone ==
    /\ Running("getAdapterModule", "gotAdapter")
    /\ IsaClangModule(ret.val)
    /\ BindAdapter(resolvedAdapter(ret.val))
    /\ UNCHANGED <<lkVars, nmVars, ModuleWrappers, firstClangModule, Generation, ctxGeneration,
                   ImportCounter, numComponents, LoadedModules, hostTable,
                   overlayLoaded, known, fatal, queries, traversals>>
    /\ AdapterReturn(resolvedAdapter(ret.val), Top.queried, FALSE)

\* the answer is registered as the shared module of that name.  A build with
\* assertions stops when the assertion fails; a build without them goes on.
GetAdapterResolve ==
    /\ Running("getAdapterModule", "gotAdapter")
    /\ ~IsaClangModule(ret.val)
    /\ LoadedModules' = [LoadedModules EXCEPT ![heap[Top.w].Name] = resolvedAdapter(ret.val)]
    /\ BindAdapter(resolvedAdapter(ret.val))
    /\ UNCHANGED <<lkVars, nmVars, ModuleWrappers, firstClangModule, Generation, ctxGeneration,
                   ImportCounter, numComponents, hostTable, overlayLoaded,
                   known, fatal, queries, traversals>>
    /\ AdapterReturn(resolvedAdapter(ret.val), Top.queried, TRUE)

GetAdapterAssertFail ==
    /\ Running("getAdapterModule", "gotAdapter")
    /\ ~IsaClangModule(ret.val)
    /\ ~sharedModuleRefOk(LoadedModules[heap[Top.w].Name], ret.val, Top.w)
    /\ fatal' = TRUE
    /\ UNCHANGED <<lkVars, nmVars, ModuleWrappers, heap, firstClangModule, Generation, ctxGeneration,
                   ImportCounter, numComponents, LoadedModules, hostTable,
                   overlayLoaded, known, stack, ret, queries, bindWrites,
                   traversals, lastAdapter>>

(***************************************************************************)
(* ASTContext::getModule, the host module table.  A Swift module of that   *)
(* name is the answer, and loading it resolves its import; otherwise the   *)
(* module loaders are asked, the importer's loadModule among them.         *)
(***************************************************************************)
CtxOverlayImport ==
    /\ Running("CtxGetModule", "start")
    /\ hostTable[Top.name] # 0
    /\ Top.name \notin overlayLoaded
    /\ overlayLoaded' = overlayLoaded \cup {Top.name}
    /\ Call([Top EXCEPT !.pc = "imported"], loadModuleFrame(OverlayImport(Top.name)))
    /\ UNCHANGED <<lkVars, nmVars, ModuleWrappers, heap, firstClangModule, Generation, ctxGeneration,
                   ImportCounter, numComponents, LoadedModules, hostTable,
                   known, ret, fatal, queries, bindWrites, traversals, lastAdapter>>

CtxOverlayReturn ==
    /\ \/ Running("CtxGetModule", "imported")
       \/ /\ Running("CtxGetModule", "start")
          /\ hostTable[Top.name] # 0
          /\ Top.name \in overlayLoaded
    /\ UNCHANGED <<lkVars, nmVars, ModuleWrappers, heap, firstClangModule, Generation, ctxGeneration,
                   ImportCounter, numComponents, LoadedModules, hostTable,
                   overlayLoaded, known, fatal, queries, bindWrites,
                   traversals, lastAdapter>>
    /\ Return([NoRet EXCEPT !.op = "CtxGetModule", !.key = Top.name,
                            !.val = Swift(Top.name, hostTable[Top.name])])

CtxFallback ==
    /\ Running("CtxGetModule", "start")
    /\ hostTable[Top.name] = 0
    /\ Call([Top EXCEPT !.pc = "fallback"], loadModuleFrame(<<Top.name>>))
    /\ UNCHANGED <<lkVars, nmVars, ModuleWrappers, heap, firstClangModule, Generation, ctxGeneration,
                   ImportCounter, numComponents, LoadedModules, hostTable,
                   overlayLoaded, known, ret, fatal, queries, bindWrites,
                   traversals, lastAdapter>>

CtxFallbackReturn ==
    /\ Running("CtxGetModule", "fallback")
    /\ UNCHANGED <<lkVars, nmVars, ModuleWrappers, heap, firstClangModule, Generation, ctxGeneration,
                   ImportCounter, numComponents, LoadedModules, hostTable,
                   overlayLoaded, known, fatal, queries, bindWrites,
                   traversals, lastAdapter>>
    /\ Return([NoRet EXCEPT !.op = "CtxGetModule", !.key = Top.name, !.val = ret.val])

Init ==
    /\ ModuleWrappers = <<>>
    /\ heap = <<>>
    /\ firstClangModule = 0
    /\ Generation = 0
    /\ ctxGeneration = 0
    /\ ImportCounter = 0
    /\ numComponents = 0
    /\ LoadedModules = [n \in TopMods |-> Null]
    /\ hostTable \in [TopMods -> {0, 1}]
    /\ overlayLoaded = {}
    /\ known = {}
    /\ stack = <<>>
    /\ ret = NoRet
    /\ fatal = FALSE
    /\ queries = <<>>
    /\ bindWrites = <<>>
    /\ traversals = <<>>
    /\ lastAdapter = <<>>
    /\ lkEnv = NoEnv
    /\ lkCall = NoCall
    /\ lkResults = <<>>
    /\ lkEvents = <<>>
    /\ lkVisible = NoVisible
    /\ nmIn = NoNameIn
    /\ nmOut = NoNameOut
Next ==
    \/ \E p \in Paths : CallLoadModule(p)
    \/ \E D \in Decls : CallGetClangModuleForDecl(D)
    \/ \E w \in 1..Len(heap) : CallGetReexportedModules(w)
    \/ \E w \in 1..Len(heap) : CallGetAdapterModule(w)
    \/ \E n \in TopMods, v \in OverlayVersions : HostTableChange(n, v)
    \/ LoadModuleFail
    \/ LoadModuleHit
    \/ LoadModuleMiss
    \/ LoadModuleBump
    \/ ForAllDone
    \/ ForAllNext
    \/ ForAllGotReexports
    \/ GetReexportedStart
    \/ GetReexportedGotTop
    \/ GetReexportedLoop
    \/ GetReexportedGotExport
    \/ GetReexportedDone
    \/ GetAdapterDelegate
    \/ GetAdapterDelegated
    \/ GetAdapterCached
    \/ GetAdapterQuery
    \/ GetAdapterResolveNone
    \/ GetAdapterResolve
    \/ CtxOverlayImport
    \/ CtxOverlayReturn
    \/ CtxFallback
    \/ CtxFallbackReturn

Spec == Init /\ [][Next]_vars

(***************************************************************************)
(* The same operations where the host compiler also fills the shared       *)
(* registry itself, and where a failing assertion stops an assertion build.*)
(***************************************************************************)
RegistryNext ==
    \/ Next
    \/ \E n \in TopMods : HostRegister(n)
    \/ GetAdapterAssertFail

RegistrySpec == Init /\ [][RegistryNext]_vars

(***************************************************************************)
(* The same operations beside a frontend whose failed load of a submodule  *)
(* path can leave the top-level module loaded.                             *)
(***************************************************************************)
PartialLoadNext ==
    \/ Next
    \/ LoadModuleFailLoaded

PartialLoadSpec == Init /\ [][PartialLoadNext]_vars

(***************************************************************************)
(* The bridge runs on one thread that does not stop inside a call: as long *)
(* as a call is in flight, the code of the topmost frame goes on.          *)
(***************************************************************************)
Step ==
    \/ LoadModuleFail
    \/ LoadModuleHit
    \/ LoadModuleMiss
    \/ LoadModuleBump
    \/ ForAllDone
    \/ ForAllNext
    \/ ForAllGotReexports
    \/ GetReexportedStart
    \/ GetReexportedGotTop
    \/ GetReexportedLoop
    \/ GetReexportedGotExport
    \/ GetReexportedDone
    \/ GetAdapterDelegate
    \/ GetAdapterDelegated
    \/ GetAdapterCached
    \/ GetAdapterQuery
    \/ GetAdapterResolveNone
    \/ GetAdapterResolve
    \/ CtxOverlayImport
    \/ CtxOverlayReturn
    \/ CtxFallback
    \/ CtxFallbackReturn

FairSpec == Init /\ [][Next]_vars /\ WF_vars(Step)
(***************************************************************************)
(* Name lookup: the foreign environment is drawn at the start, and the     *)
(* host compiler looks names up in it.                                     *)
(***************************************************************************)
LookupInit ==
    /\ ModuleWrappers = <<>>
    /\ heap = <<>>
    /\ firstClangModule = 0
    /\ Generation = 0
    /\ ctxGeneration = 0
    /\ ImportCounter = 0
    /\ numComponents = 0
    /\ LoadedModules = [n \in TopMods |-> Null]
    /\ hostTable = [n \in TopMods |-> 0]
    /\ overlayLoaded = {}
    /\ known = {}
    /\ stack = <<>>
    /\ ret = NoRet
    /\ fatal = FALSE
    /\ queries = <<>>
    /\ bindWrites = <<>>
    /\ traversals = <<>>
    /\ lastAdapter = <<>>
    /\ lkEnv \in Envs
    /\ lkCall = NoCall
    /\ lkResults = <<>>
    /\ lkEvents = <<>>
    /\ lkVisible = NoVisible
    /\ nmIn = NoNameIn
    /\ nmOut = NoNameOut

LookupNext ==
    \/ \E name \in LookupNames, prior \in {<<>>, <<PriorDecl>>} :
          \E accessPath \in {<<>>, <<name>>, <<nW>>} :
              CallLookupValue(name, accessPath, prior)
    \/ \E filter \in ModuleFilters : CallLookupVisibleDecls(filter)

LookupSpec == LookupInit /\ [][LookupNext]_vars

(***************************************************************************)
(* The identifier translation: the names are drawn at the start, and the   *)
(* two importName overloads are applied to them.                           *)
(***************************************************************************)
NameInit ==
    /\ ModuleWrappers = <<>>
    /\ heap = <<>>
    /\ firstClangModule = 0
    /\ Generation = 0
    /\ ctxGeneration = 0
    /\ ImportCounter = 0
    /\ numComponents = 0
    /\ LoadedModules = [n \in TopMods |-> Null]
    /\ hostTable = [n \in TopMods |-> 0]
    /\ overlayLoaded = {}
    /\ known = {}
    /\ stack = <<>>
    /\ ret = NoRet
    /\ fatal = FALSE
    /\ queries = <<>>
    /\ bindWrites = <<>>
    /\ traversals = <<>>
    /\ lastAdapter = <<>>
    /\ lkEnv = NoEnv
    /\ lkCall = NoCall
    /\ lkResults = <<>>
    /\ lkEvents = <<>>
    /\ lkVisible = NoVisible
    /\ \E s \in Names, kind \in NameKinds :
          \E k \in 0..Len(s) : nmIn = NameInput(s, k, kind)
    /\ nmOut = NoNameOut

NameNext ==
    \/ CallImportName
    \/ CallImportNameBack
    \/ CallImportNameSuffix

NameSpec == NameInit /\ [][NameNext]_vars
(***************************************************************************)
(* Properties of the wrapper cache and the adapter binding (under Spec).   *)
(***************************************************************************)
Wrappers == 1..Len(heap)
HasWrapper(m) == \E w \in Wrappers : heap[w].clangModule = m
\* the wrapper that was created first for the foreign module m
FirstWrapper(m) ==
    CHOOSE w \in Wrappers :
        /\ heap[w].clangModule = m
        /\ \A v \in 1..(w - 1) : heap[v].clangModule # m
\* wrappers that loadModule built itself
BuiltByLoad == {w \in Wrappers : traversals[w] > 0}

\* C1: every call that obtains the wrapper of a foreign module (loadModule,
\* getClangModuleForDecl, and the getWrapperModule calls of getReexportedModules
\* and getAdapterModule, whatever component they pass) gets the wrapper that was
\* created first for that module, and the cache keeps holding that wrapper.
C1_WrapperIdentity ==
    /\ \A m \in Mods :
          HasWrapper(m) =>
              /\ m \in DOMAIN ModuleWrappers
              /\ ModuleWrappers[m].ptr = FirstWrapper(m)
    /\ (ret.op \in {"loadModule", "getClangModuleForDecl"} /\ ret.val # Null) =>
          ret.val = Clang(FirstWrapper(ret.key))
    /\ \A i \in 1..Len(stack) :
          /\ (stack[i].fn = "getReexportedModules" /\ stack[i].pc = "gotExport") =>
                stack[i].ew =
                    FirstWrapper(ExportedModules(heap[stack[i].w].clangModule)[stack[i].i])
          /\ (stack[i].fn = "getAdapterModule" /\ stack[i].pc = "delegated"
                /\ i < Len(stack)) =>
                stack[i + 1].w =
                    FirstWrapper(TopLevelModule(heap[stack[i].w].clangModule))

\* a call that found the wrapper cached although it passed another component
\* than the one the wrapper was created with
C1_Witness ==
    /\ ret.op = "getClangModuleForDecl"
    /\ ret.val # Null
    /\ ~ret.created
    /\ heap[ret.w].comp < numComponents
    /\ Len(heap) >= 2

\* C2: between the host compiler's operations, Generation is its initial value
\* (0) plus the number of wrappers created, whichever path created them.
C2_GenerationCountsWrappers ==
    Idle => Generation = Cardinality({heap[w].clangModule : w \in Wrappers})

\* C3 as stated: a loadModule call that finds the wrapper cached returns it and
\* leaves the generation alone, and two consecutive successful loadModule calls
\* for the same path raise Generation by exactly 1 in total.
C3_TwoLoadsRaiseByOne ==
    /\ (ret.op = "loadModule" /\ ret.hit) =>
          ret.val = Clang(Entry(ModuleWrappers, ret.key).ptr)
    /\ (Idle /\ ret.op = "loadModule" /\ ret.byHost /\ ret.hit) =>
          Generation = ret.gen
    /\ (Idle /\ ret.op = "loadModule" /\ ret.byHost /\ ret.second) =>
          Generation = ret.gen0 + 1

\* a loadModule step about to find the wrapper of its module cached
LoadModuleHitPending ==
    /\ Running("loadModule", "start")
    /\ ResolvePath(Top.path) # NoModule
    /\ Entry(ModuleWrappers, ResolvePath(Top.path)).ptr # 0

\* C3, amended: a loadModule call that finds the wrapper cached returns that
\* wrapper, creates no wrapper and leaves Generation, the host context's
\* generation and firstClangModule unchanged; no step lowers either counter;
\* and the second of two consecutive successful loadModule calls for the same
\* path finds the wrapper cached and leaves Generation as it found it.
C3_HitLeavesGeneration ==
    /\ [][(LoadModuleHitPending /\ stack' # stack) =>
             /\ ret'.op = "loadModule"
             /\ ret'.val = Clang(Entry(ModuleWrappers, ResolvePath(Top.path)).ptr)
             /\ Entry(ModuleWrappers', ResolvePath(Top.path)).ptr
                    = Entry(ModuleWrappers, ResolvePath(Top.path)).ptr
             /\ heap' = heap
             /\ Generation' = Generation
             /\ ctxGeneration' = ctxGeneration
             /\ firstClangModule' = firstClangModule]_vars
    /\ [][Generation' >= Generation /\ ctxGeneration' >= ctxGeneration]_vars
    /\ []((Idle /\ ret.op = "loadModule" /\ ret.byHost /\ ret.second) =>
             (ret.hit /\ Generation = ret.gen))

\* the second of two consecutive successful loads of one path has returned, and
\* the first one had raised Generation
C3_Witness ==
    /\ Idle
    /\ ret.op = "loadModule"
    /\ ret.byHost
    /\ ret.second
    /\ ret.hit
    /\ ret.gen > ret.gen0

\* a loadModule step whose foreign load fails
LoadModuleFailed ==
    /\ Running("loadModule", "start")
    /\ Len(stack') = Len(stack) - 1
    /\ ret'.op = "loadModule"
    /\ ret'.val = Null

\* C4: a loadModule call whose foreign load fails returns absent and leaves the
\* wrapper cache (keys, pointers, flags), the wrappers, Generation, the host
\* context's generation and firstClangModule unchanged; and when the host
\* compiler retries the path right away and the foreign load succeeds, the call
\* builds the wrapper, stores it with its flag set, and raises Generation once
\* for itself (its bump step adds exactly 1).
C4_FailedLoadNoResidue ==
    /\ [][LoadModuleFailed =>
             /\ ModuleWrappers' = ModuleWrappers
             /\ heap' = heap
             /\ Generation' = Generation
             /\ ctxGeneration' = ctxGeneration
             /\ firstClangModule' = firstClangModule]_vars
    /\ [][(Running("loadModule", "bump") /\ stack' # stack) =>
             /\ Generation' = Generation + 1
             /\ ctxGeneration' = ctxGeneration + 1
             /\ ret'.val = Clang(Top.w)]_vars
    /\ []((ret.op = "loadModule" /\ ret.byHost /\ ret.retry /\ ret.val # Null) =>
             /\ ret.created
             /\ Entry(ModuleWrappers, ret.key) = [ptr |-> ret.w, int |-> TRUE]
             /\ heap[ret.w].clangModule = ret.key
             /\ ret.w \in BuiltByLoad
             /\ Generation > ret.gen)

\* a retry of a failed load has succeeded
C4_Witness ==
    /\ Idle
    /\ ret.op = "loadModule"
    /\ ret.byHost
    /\ ret.retry
    /\ ret.created

\* C5: a getAdapterModule call made after another call on the same wrapper has
\* returned gives what that call gave, and neither asks the host module table
\* nor writes the shared registry.
C5_AdapterMemoized ==
    (ret.op = "getAdapterModule" /\ ret.prev # Unset) =>
        /\ ret.val = ret.prev
        /\ ~ret.queried
        /\ ~ret.wrote

\* the host compiler asked for an adapter a second time, after the host module
\* table's answer for the name had changed
C5_Witness ==
    /\ Idle
    /\ ret.op = "getAdapterModule"
    /\ ret.byHost
    /\ ret.prev # Unset
    /\ isTopLevel(ret.w)
    /\ ret.val # (IF hostTable[heap[ret.w].Name] = 0 THEN Null
                  ELSE Swift(heap[ret.w].Name, hostTable[heap[ret.w].Name]))

\* C6: for every wrapper the host module table is asked at most once and the
\* adapter binding is written at most once, re-entrant calls included.
C6_ResolvedOnce ==
    \A w \in Wrappers : queries[w] <= 1 /\ bindWrites[w] <= 1

(***************************************************************************)
(* Properties of lookupValue (under LookupSpec).                           *)
(***************************************************************************)
\* the declarations the call appended
Appended == SubSeq(lkResults, Len(lkCall.prior) + 1, Len(lkResults))
EventKinds == {lkEvents[i].ev : i \in 1..Len(lkEvents)}
\* the foreign lookups the call made, in order
Lookups == SelectSeq(lkEvents, LAMBDA e : e.ev = "LookupName")
\* the call got past the access path check
PathOk == Len(lkCall.accessPath) = 0 \/ lkCall.accessPath[1] = lkCall.name

\* C7: for the reserved names "true" and "false" the translation gives no
\* foreign name, and lookupValue appends nothing and makes neither the macro
\* probe nor a foreign lookup, whatever the foreign environment declares.
C7_ReservedNameExcluded ==
    \A n \in {nTrue, nFalse} :
        /\ ~importName(n).ok
        /\ (lkCall.done /\ lkCall.name = n) =>
              /\ lkResults = lkCall.prior
              /\ EventKinds \subseteq {"importName"}

\* "true" was looked up where the frontend has both a declaration and an
\* importable macro of that name
C7_Witness ==
    /\ lkCall.done
    /\ lkCall.name = nTrue
    /\ lkCall.accessPath = <<>>
    /\ lkEnv.macros[nTrue] = "ok"
    /\ \E d \in lkEnv.decls : DeclTable[d].name = nTrue

\* the names without the suffix that the looked-up names are made of
BaseNames == {<<>>, nW, nPoint, nTrue}
HasProtoSuffix(n) == \E k \in 0..Len(n) : n = SubSeq(n, 1, k) \o ProtoSuffix

\* C8: a lookup of base + "Proto" translates base, probes the macro of base and
\* looks base up as a protocol name, and no more; a lookup of a name that does
\* not end in "Proto" translates that name and looks it up as an ordinary name
\* first.
C8_ProtoSuffixStripped ==
    (lkCall.done /\ PathOk) =>
        /\ \A base \in BaseNames :
              lkCall.name = base \o ProtoSuffix =>
                  /\ lkEvents[1] = [ev |-> "importName", id |-> base, kind |-> ""]
                  /\ \A i \in 1..Len(lkEvents) :
                        /\ lkEvents[i].ev \in {"hasMacroDefinition", "getMacroInfo",
                                               "importMacro", "importDecl"}
                              => lkEvents[i].id = base
                        /\ lkEvents[i].ev = "LookupName" =>
                              lkEvents[i] = [ev |-> "LookupName", id |-> base,
                                             kind |-> "protocol"]
                  /\ importName(base).ok => Len(Lookups) = 1
                  /\ \A i \in 1..Len(Appended) :
                        Appended[i].via \in {"macro", "protocol"}
        /\ ~HasProtoSuffix(lkCall.name) =>
              /\ lkEvents[1] = [ev |-> "importName", id |-> lkCall.name, kind |-> ""]
              /\ importName(lkCall.name).ok =>
                    /\ Lookups # <<>>
                    /\ Lookups[1] = [ev |-> "LookupName", id |-> lkCall.name,
                                     kind |-> "ordinary"]
              /\ \A i \in 1..Len(Lookups) : Lookups[i].id = lkCall.name

\* "WProto" was looked up where the frontend has the protocol W and an ordinary
\* declaration WProto: the protocol is the one result
C8_Witness ==
    /\ lkCall.done
    /\ lkCall.name = nW \o ProtoSuffix
    /\ lkCall.accessPath = <<>>
    /\ lkEnv.decls = {8, 10}
    /\ Appended = <<HostDecl(8, "protocol")>>

TagAttempted == \E i \in 1..Len(lkEvents) :
                    lkEvents[i].ev = "LookupName" /\ lkEvents[i].kind = "tag"
OrdinaryLookupDone == \E i \in 1..Len(lkEvents) :
                    lkEvents[i].ev = "LookupName" /\ lkEvents[i].kind = "ordinary"
OrdinaryTypeFound == \E i \in 1..Len(Appended) :
                    Appended[i].via = "ordinary" /\ Appended[i].imp = "type"

\* C9: the tag lookup is made exactly when the call made its lookup in
\* ordinary-name mode and that lookup gave no accepted type declaration; with an
\* accepted ordinary type no tag declaration is in the results; and the tag
\* results follow all others.
C9_TagFallbackExclusive ==
    lkCall.done =>
        /\ TagAttempted <=> (OrdinaryLookupDone /\ ~OrdinaryTypeFound)
        /\ OrdinaryTypeFound => \A i \in 1..Len(Appended) : Appended[i].via # "tag"
        /\ \A i, j \in 1..Len(Appended) :
              (i < j /\ Appended[i].via = "tag") => Appended[j].via = "tag"

\* "Pt" was looked up where the frontend has an ordinary type Pt and a tag Pt:
\* only the ordinary one is in the results
C9_Witness ==
    /\ lkCall.done
    /\ lkCall.name = nPoint
    /\ lkCall.accessPath = <<>>
    /\ lkEnv.decls = {2, 3}
    /\ Appended = <<HostDecl(2, "ordinary")>>
    /\ ~TagAttempted

\* C10: every declaration appended from a foreign lookup (ordinary, protocol or
\* tag) was translated, is a value declaration and is not in the context of the
\* Swift standard library module.
C10_NoShimLeak ==
    \A i \in 1..Len(Appended) :
        Appended[i].via \in {"ordinary", "protocol", "tag"} =>
            /\ Appended[i].imp \in {"value", "type"}
            /\ ~Appended[i].stdlib
\* C11: a lookupValue call with a one-segment access path whose segment is not
\* the looked-up name appends nothing and asks nothing of the translator or
\* the frontend (no identifier translation, macro probe, foreign lookup or
\* declaration translation); a call with an empty or a matching path translates
\* the name and gives what the call with the empty path gives.
C11_AccessPathMismatch ==
    lkCall.done =>
        /\ (Len(lkCall.accessPath) = 1 /\ lkCall.accessPath[1] # lkCall.name) =>
              /\ lkResults = lkCall.prior
              /\ lkEvents = <<>>
        /\ (lkCall.accessPath = <<>> \/ lkCall.accessPath = <<lkCall.name>>) =>
              /\ lkEvents # <<>>
              /\ lkEvents[1].ev = "importName"
              /\ lkEvents = lookupValue(lkEnv, <<>>, lkCall.name).events
              /\ lkResults = lkCall.prior \o lookupValue(lkEnv, <<>>, lkCall.name).appended

\* "Pt" was looked up through the access path "W" where the frontend declares
\* Pt and has an importable macro Pt, with a results vector already begun
C11_Witness ==
    /\ lkCall.done
    /\ lkCall.name = nPoint
    /\ lkCall.accessPath = <<nW>>
    /\ lkCall.prior = <<PriorDecl>>
    /\ lkEnv.macros[nPoint] = "ok"
    /\ 2 \in lkEnv.decls
    /\ lkResults = <<PriorDecl>>
\* what the consumer is to receive for the declarations S still to enumerate:
\* for each named, non-private one, in order, the lookup of its spelling with no
\* access path, cut down to the module asked for
RECURSIVE ExpectedForwarded(_, _, _)
ExpectedForwarded(env, filter, S) ==
    IF S = {} THEN <<>>
    ELSE LET d == CHOOSE x \in S : \A y \in S : x <= y
             all == lookupValue(env, <<>>, DeclTable[d].name).appended
             InModule(vd) == filter = NoFilter \/ vd.mod = filter
             mine == IF DeclTable[d].name # <<>> /\ ~DeclTable[d].private
                     THEN SelectSeq(all, InModule) ELSE <<>>
         IN  mine \o ExpectedForwarded(env, filter, S \ {d})

\* the spellings of the named, non-private declarations among S, in order
RECURSIVE ExpectedLookups(_)
ExpectedLookups(S) ==
    IF S = {} THEN <<>>
    ELSE LET d == CHOOSE x \in S : \A y \in S : x <= y
         IN  (IF DeclTable[d].name # <<>> /\ ~DeclTable[d].private
              THEN <<DeclTable[d].name>> ELSE <<>>) \o ExpectedLookups(S \ {d})

\* C12: lookupVisibleDecls forwards to the consumer exactly, for each visible
\* foreign declaration in enumeration order that has a spelling and is not
\* module-private, the results of lookupValue for that spelling with an empty
\* access path, restricted to the module filter when one is given; a
\* declaration without spelling or marked module-private causes no lookup and
\* forwards nothing.
C12_BulkAgreesWithTargeted ==
    lkVisible.done =>
        /\ lkVisible.forwarded =
              ExpectedForwarded(lkEnv, lkVisible.filter, lkEnv.decls)
        /\ lkVisible.lookups = ExpectedLookups(lkEnv.decls)
        /\ lkVisible.filter # NoFilter =>
              \A i \in 1..Len(lkVisible.forwarded) :
                  lkVisible.forwarded[i].mod = lkVisible.filter
        /\ (\A d \in lkEnv.decls : DeclTable[d].name = <<>> \/ DeclTable[d].private) =>
              (lkVisible.forwarded = <<>> /\ lkVisible.lookups = <<>>)

\* the visible declarations were enumerated with the filter Base where the
\* frontend has the type Pt of Base and a module-private value Pt of Kit: one
\* lookup is made, and only the type is forwarded
C12_Witness ==
    /\ lkVisible.done
    /\ lkVisible.filter = "Base"
    /\ lkEnv.decls = {2, 14}
    /\ lkEnv.macros[nPoint] = "none"
    /\ lkVisible.lookups = <<nPoint>>
    /\ lkVisible.forwarded = <<HostDecl(2, "ordinary")>>
\* the adapter bound for the wrapper w: that of the wrapper of its top-level module
AdapterOf(w) == heap[FirstWrapper(TopLevelModule(heap[w].clangModule))].adapter

\* C13: getReexportedModules gives one entry per module the wrapped foreign
\* module exports, in the frontend's order; the entry for an exported module
\* with wrapper e is e's adapter when that adapter is present and is not the
\* adapter of the importing module, and e itself otherwise; the importing
\* module's own adapter is never among the entries.
C13_ReexportSelection ==
    ret.op = "getReexportedModules" =>
        LET exported == ExportedModules(ret.key)
            own == AdapterOf(ret.w)
        IN  /\ heap[ret.w].clangModule = ret.key
            /\ ret.val = own
            /\ Len(ret.out) = Len(exported)
            /\ \A i \in 1..Len(exported) :
                  /\ HasWrapper(exported[i])
                  /\ LET e == FirstWrapper(exported[i])
                     IN  ret.out[i] = IF AdapterOf(e) # Null /\ AdapterOf(e) # own
                                      THEN AdapterOf(e) ELSE Clang(e)
            /\ own # Null => \A i \in 1..Len(ret.out) : ret.out[i] # own

\* the re-exports of Kit were asked for where Kit and Base both have an overlay:
\* the submodule, whose adapter is Kit's own, is emitted as itself, and Base is
\* emitted as its overlay
C13_Witness ==
    /\ ret.op = "getReexportedModules"
    /\ ret.key = "Kit"
    /\ ret.val # Null
    /\ Len(ret.out) = 2
    /\ ret.out[1].kind = "clang"
    /\ AdapterOf(ret.out[1].id) = ret.val
    /\ ret.out[2].kind = "swift"
\* C14: no step rebinds a name of the shared registry from one module object
\* to another: getAdapterModule writes an adapter under the wrapper's name
\* only when the entry is empty or already holds that adapter, and stops with
\* a fatal error in every other situation.
C14_RegistryNeverRebound ==
    [][\A n \in TopMods :
          LoadedModules[n] # Null =>
              (LoadedModules'[n] = LoadedModules[n] \/ fatal')]_vars
\* a getAdapterModule call on a top-level wrapper has its answer from the host
\* module table and binds it
AdapterAnswered == Running("getAdapterModule", "gotAdapter")

\* C15: when the host module table answers a getAdapterModule call on a
\* top-level wrapper with a foreign wrapper (the wrapper itself included), the
\* call resolves to absent and leaves the shared registry alone; otherwise it
\* resolves to exactly the module the table answered; and no wrapper's adapter
\* binding ever holds a foreign wrapper.
C15_AdapterNeverForeignWrapper ==
    /\ [][(AdapterAnswered /\ stack' # stack) =>
             /\ isTopLevel(Top.w)
             /\ heap'[Top.w].adapterInt
             /\ ret'.op = "getAdapterModule"
             /\ ret'.w = Top.w
             /\ IF ret.val.kind = "clang"
                THEN /\ heap'[Top.w].adapter = Null
                     /\ ret'.val = Null
                     /\ LoadedModules' = LoadedModules
                ELSE /\ heap'[Top.w].adapter = ret.val
                     /\ ret'.val = ret.val]_vars
    /\ [](\A w \in Wrappers : heap[w].adapter.kind # "clang")

\* the host module table answered a call on the Kit wrapper with that very
\* wrapper, and the call has resolved to absent without a registry write
C15_Witness ==
    /\ ret.op = "getAdapterModule"
    /\ ret.queried
    /\ ~ret.wrote
    /\ ret.val = Null
    /\ isTopLevel(ret.w)
    /\ heap[ret.w].adapterInt
    /\ heap[ret.w].adapter = Null
    /\ hostTable[heap[ret.w].Name] = 0
    /\ LoadedModules[heap[ret.w].Name] = Null
\* C16: getAdapterModule on the wrapper of a submodule calls getAdapterModule
\* on the wrapper of the submodule's top-level module (made through the
\* wrapper cache when there is none yet) and returns what that call returns;
\* the submodule wrapper's own binding is never resolved, queried for or
\* written.
C16_SubmoduleDelegates ==
    /\ \A w \in Wrappers :
          IsSubModule(heap[w].clangModule) =>
              /\ ~heap[w].adapterInt
              /\ heap[w].adapter = Null
              /\ queries[w] = 0
              /\ bindWrites[w] = 0
    /\ \A i \in 1..Len(stack) :
          (stack[i].fn = "getAdapterModule" /\ IsSubModule(heap[stack[i].w].clangModule)) =>
              /\ stack[i].pc \in {"start", "delegated"}
              /\ stack[i].pc = "start" => i = Len(stack)
              /\ (stack[i].pc = "delegated" /\ i < Len(stack)) =>
                    /\ stack[i + 1].fn = "getAdapterModule"
                    /\ heap[stack[i + 1].w].clangModule =
                           TopLevelModule(heap[stack[i].w].clangModule)
    /\ (ret.op = "getAdapterModule" /\ IsSubModule(ret.key)) =>
          /\ HasWrapper(TopLevelModule(ret.key))
          /\ LET t == FirstWrapper(TopLevelModule(ret.key))
             IN  /\ heap[t].adapterInt
                 /\ ret.val = heap[t].adapter
                 /\ ret.val = lastAdapter[t]

\* the host compiler asked for the adapter of the Kit.Sub wrapper, which was
\* made before the wrapper of Kit, and got Kit's overlay
C16_Witness ==
    /\ Idle
    /\ ret.op = "getAdapterModule"
    /\ ret.byHost
    /\ IsSubModule(ret.key)
    /\ ret.val # Null
    /\ FirstWrapper(TopLevelModule(ret.key)) > ret.w
\* the keys of the wrapper cache that hold a wrapper
CachedKeys == {k \in DOMAIN ModuleWrappers : ModuleWrappers[k].ptr # 0}

\* C17: the wrapper cache holds at most one wrapper per foreign module, the
\* wrapper stored under a key has that key as its foreign module, no wrapper
\* is stored under two keys and no two wrappers wrap one module; loadModule
\* keys the wrapper by the module the foreign loader gave for the path (the
\* submodule for a submodule path), getClangModuleForDecl by the top-level
\* module of the declaration's owner.
C17_OneWrapperPerModule ==
    /\ CachedKeys \subseteq Mods
    /\ \A k \in CachedKeys :
          /\ ModuleWrappers[k].ptr \in Wrappers
          /\ heap[ModuleWrappers[k].ptr].clangModule = k
    /\ \A k1, k2 \in CachedKeys :
          ModuleWrappers[k1].ptr = ModuleWrappers[k2].ptr => k1 = k2
    /\ \A w1, w2 \in Wrappers :
          heap[w1].clangModule = heap[w2].clangModule => w1 = w2
    /\ \A w \in Wrappers :
          /\ heap[w].clangModule \in CachedKeys
          /\ ModuleWrappers[heap[w].clangModule].ptr = w
    /\ (ret.op = "loadModule" /\ ret.val # Null) =>
          /\ ret.path = <<"Kit", "Sub">> => ret.key = "Kit.Sub"
          /\ ret.path = <<"Kit">> => ret.key = "Kit"
          /\ ret.path = <<"Base">> => ret.key = "Base"
          /\ ret.val = Clang(ret.w)
          /\ heap[ret.w].clangModule = ret.key
    /\ (ret.op = "getClangModuleForDecl" /\ ret.val # Null) =>
          /\ ret.key \in TopMods
          /\ ret.val = Clang(ret.w)
          /\ heap[ret.w].clangModule = ret.key

\* wrappers of Kit and of its submodule Kit.Sub both exist, and a declaration's
\* wrapper was asked for after the submodule path had been loaded
C17_Witness ==
    /\ Idle
    /\ ret.op = "getClangModuleForDecl"
    /\ ret.val # Null
    /\ "Kit.Sub" \in CachedKeys
    /\ "Kit" \in CachedKeys
    /\ ModuleWrappers["Kit.Sub"].ptr # ModuleWrappers["Kit"].ptr
    /\ traversals[ModuleWrappers["Kit.Sub"].ptr] > 0
\* C18: the flag of a cache entry, once set, stays set under every step
\* (loadModule hit or miss, getWrapperModule storing a pointer,
\* getReexportedModules, getAdapterModule), and the entry keeps its place in
\* the cache; and every wrapper a successful loadModule returns has its
\* entry's flag set when the call returns.
C18_AdaptersForcedMonotonic ==
    /\ [][\A k \in DOMAIN ModuleWrappers :
             ModuleWrappers[k].int =>
                 /\ k \in DOMAIN ModuleWrappers'
                 /\ ModuleWrappers'[k].int
                 /\ ModuleWrappers'[k].ptr = ModuleWrappers[k].ptr]_vars
    /\ []((ret.op = "loadModule" /\ ret.val # Null) =>
             /\ ret.key \in DOMAIN ModuleWrappers
             /\ ModuleWrappers[ret.key].int
             /\ ModuleWrappers[ret.key].ptr = ret.w)

\* loadModule has returned a wrapper that getWrapperModule had made, and other
\* wrappers were made after its entry's flag was set
C18_Witness ==
    /\ Idle
    /\ ret.op = "loadModule"
    /\ ret.byHost
    /\ ret.hit
    /\ traversals[ret.w] = 0
    /\ ModuleWrappers[ret.key].int
    /\ \E k \in DOMAIN ModuleWrappers : ~ModuleWrappers[k].int /\ ModuleWrappers[k].ptr # 0
\* the traversals in flight on the wrapper w
TraversalsInFlight(w) ==
    {i \in 1..Len(stack) : stack[i].fn = "forAllVisibleModules" /\ stack[i].w = w}

\* C19: over any sequence of loadModule calls, those re-entered from inside a
\* traversal included, the walk over a wrapper's visible modules is started at
\* most once for each wrapper, and so at most once for each foreign module; a
\* walk is never started inside a walk on the same wrapper.
C19_TraversalAtMostOnce ==
    /\ \A w \in Wrappers : traversals[w] <= 1
    /\ \A m \in Mods :
          Cardinality({w \in Wrappers : heap[w].clangModule = m /\ traversals[w] > 0}) <= 1
    /\ \A w \in Wrappers :
          /\ Cardinality(TraversalsInFlight(w)) <= 1
          /\ TraversalsInFlight(w) # {} => traversals[w] = 1

\* a loadModule call re-entered from inside the walk on a wrapper has returned
\* that wrapper while the walk is still in flight
C19_Witness ==
    /\ ret.op = "loadModule"
    /\ ~ret.byHost
    /\ ret.hit
    /\ TraversalsInFlight(ret.w) # {}
    /\ traversals[ret.w] = 1
\* C20: whenever loadModule returns a wrapper, the walk over that wrapper's
\* visible modules has been made, also when the wrapper had been created
\* earlier by getWrapperModule and its entry's flag was still unset on entry;
\* so between the host compiler's operations a set flag means the walk was made.
C20_ForcedOnFirstHandOut ==
    /\ (ret.op = "loadModule" /\ ret.val # Null) => traversals[ret.w] > 0
    /\ Idle => \A k \in CachedKeys :
                  ModuleWrappers[k].int => traversals[ModuleWrappers[k].ptr] > 0
\* the wrapper w is being walked: its forAllVisibleModules call is in flight
InProgress(w) == TraversalsInFlight(w) # {}
\* a loadModule call is in flight
LoadModuleInFlight == \E i \in 1..Len(stack) : stack[i].fn = "loadModule"

\* what holds of a wrapper w of the foreign module m while it is being walked
InsertedBeforeForce(w, m) ==
    /\ Entry(ModuleWrappers, m) = [ptr |-> w, int |-> TRUE]
    /\ {v \in Wrappers : heap[v].clangModule = m} = {w}
    /\ traversals[w] = 1
    /\ Cardinality(TraversalsInFlight(w)) = 1
    /\ (ret.op = "loadModule" /\ ret.key = m) => (ret.w = w /\ ret.hit)
    /\ \A i \in 1..Len(stack) :
          /\ (/\ stack[i].fn = "loadModule" /\ stack[i].pc = "bump"
              /\ stack[i].name = m) => stack[i].w = w
          /\ (/\ stack[i].fn = "getReexportedModules" /\ stack[i].pc = "gotExport"
              /\ ExportedModules(heap[stack[i].w].clangModule)[stack[i].i] = m)
             => stack[i].ew = w

\* C21: on a cache miss loadModule stores the new wrapper and sets its flag
\* before the walk over its visible modules starts, so a loadModule or
\* getWrapperModule for the same foreign module re-entered during the walk
\* gets the wrapper being walked, and neither a second wrapper nor a second
\* walk is made; and every loadModule call returns.
C21_InsertBeforeForceTerminates ==
    /\ [](\A w \in Wrappers : InProgress(w) => InsertedBeforeForce(w, heap[w].clangModule))
    /\ LoadModuleInFlight ~> Idle

\* a loadModule for the module being walked came back from the cache, while
\* the walks of two modules that re-export each other are in flight
C21_Witness ==
    /\ ret.op = "loadModule" /\ ret.hit /\ ~ret.byHost
    /\ InProgress(ret.w)
    /\ \E v \in Wrappers : v # ret.w /\ InProgress(v)
\* the name lookupValue goes on with, and the state of its macro definition
C22_Name == strippedName(lkCall.name)
C22_MacroState == MacroState(lkEnv, importName(C22_Name).id)
\* where the call appended a declaration made from a macro
MacroPositions == {i \in 1..Len(Appended) : Appended[i].via = "macro"}
EventIndex(ev) == {i \in 1..Len(lkEvents) : lkEvents[i].ev = ev}

\* C22: in one lookupValue call whose name translates, a macro of that name
\* that translates to a host declaration is appended exactly once and before
\* every declaration of the ordinary or protocol lookup and of the tag
\* fallback; without a macro definition, or with one that does not translate,
\* no macro declaration is appended; the semantic lookup runs in both cases,
\* after the macro was translated.
C22_MacroResultFirst ==
    (lkCall.done /\ PathOk /\ importName(C22_Name).ok) =>
        /\ C22_MacroState = "ok" => MacroPositions = {1}
        /\ C22_MacroState # "ok" => MacroPositions = {}
        /\ \E i \in EventIndex("LookupName") :
              /\ lkEvents[i].kind = lookupNameKind(lkCall.name)
              /\ \A j \in EventIndex("importMacro") \cup EventIndex("getMacroInfo") : j < i
              /\ \A j \in EventIndex("importDecl") : i < j
        /\ (EventIndex("importMacro") # {}) = (C22_MacroState \in {"fail", "ok"})
        /\ Cardinality(EventIndex("importMacro")) <= 1
        /\ SubSeq(lkResults, 1, Len(lkCall.prior)) = lkCall.prior

\* the macro's declaration stands before one of the ordinary lookup and one
\* of the tag fallback
C22_Witness ==
    /\ lkCall.done /\ PathOk /\ C22_MacroState = "ok"
    /\ Len(Appended) >= 3
    /\ Appended[1].via = "macro"
    /\ \E i, j \in 2..Len(Appended) :
          Appended[i].via = "ordinary" /\ Appended[j].via = "tag"
\* C23: once a wrapper exists, firstClangModule is set and is the wrapper that
\* was created first of all, whether loadModule or getWrapperModule created
\* it; and once set it never changes.
C23_FirstWrapperAnchor ==
    /\ [](heap # <<>> => firstClangModule = 1)
    /\ [][firstClangModule # 0 => firstClangModule' = firstClangModule]_vars
(***************************************************************************)
(* Properties of the identifier translation (under NameSpec).              *)
(***************************************************************************)
ReservedWords == {nTrue, nFalse}
ForeignKeywords == {nInt}
StartsLikeOperator(n) == n # <<>> /\ n[1] = "+"

\* C24: a host identifier that is no operator, no reserved word and no
\* foreign keyword translates to the foreign side, and translating the result
\* back with an empty suffix gives the same identifier; with a suffix that is
\* not empty, the translation to the host gives nothing exactly when the
\* foreign name is empty or no simple identifier or when the spelling with
\* the suffix appended is a reserved word, and else the identifier spelled
\* spelling + suffix.
C24_NameRoundTrip ==
    /\ "importName" \in nmOut.asked =>
          nmOut.foreign.ok =
             (/\ ~StartsLikeOperator(nmIn.host)
              /\ nmIn.host \notin ReservedWords
              /\ nmIn.host \notin ForeignKeywords)
    /\ ("back" \in nmOut.asked /\ nmOut.foreign.ok) =>
          (nmOut.back.ok /\ nmOut.back.id = nmIn.host)
    /\ ("suffix" \in nmOut.asked /\ nmIn.suffix # <<>>) =>
          IF \/ ~nmIn.name.ok
             \/ nmIn.name.kind # "Identifier"
             \/ (nmIn.name.id \o nmIn.suffix) \in ReservedWords
          THEN ~nmOut.host.ok
          ELSE nmOut.host.ok /\ nmOut.host.id = nmIn.name.id \o nmIn.suffix

\* a name went to the foreign side and came back, and the reserved spelling
\* "true" was translated with a suffix
C24_Witness ==
    /\ nmOut.asked = {"importName", "back", "suffix"}
    /\ nmOut.foreign.ok /\ nmOut.back.ok /\ nmIn.host # <<>>
    /\ nmIn.name.ok /\ nmIn.name.kind = "Identifier"
    /\ nmIn.name.id = nTrue /\ nmIn.suffix # <<>>
    /\ nmOut.host.ok
====
